---- MODULE Spec2Model ----
(***************************************************************************)
(* Request translators of CLIProxyAPI for the Codex backend:               *)
(*   - ConvertOpenAIRequestToCodex (Chat-Completions -> Responses shape)   *)
(*   - ConvertOpenAIResponsesRequestToCodex (Responses normalizer)         *)
(*   - the identifier shortener both rest on (shortenCallID,               *)
(*     shortenNameIfNeeded, buildShortNameMap).                            *)
(*                                                                         *)
(* Go strings are TLA+ strings; len() is Len, s[:n] is SubSeq(s, 1, n).    *)
(* Every string of the inputs is ASCII, so bytes and characters coincide.  *)
(***************************************************************************)
EXTENDS Integers, Sequences, FiniteSets, TLC

VARIABLES
    op,        \* which entry point this run exercises
    pc,        \* position of the caller: "start", "done", "again"; inside
               \* buildShortNameMap: "range", "search"
    names,     \* argument of buildShortNameMap
    name,      \* argument of shortenNameIfNeeded
    nameMap,   \* result of buildShortNameMap: [used, m]
    alias,     \* result of shortenNameIfNeeded
    req,       \* Chat-Completions request document
    out,       \* result of ConvertOpenAIRequestToCodex
    rreq,      \* Responses request document
    rout,      \* result of ConvertOpenAIResponsesRequestToCodex(rreq)
    rout2,     \* result of ConvertOpenAIResponsesRequestToCodex(rout)
    loop       \* locals of buildShortNameMap run step by step: [k, i, base]

vars == <<op, pc, names, name, nameMap, alias, req, out, rreq, rout, rout2, loop>>

-----------------------------------------------------------------------------
(* Bounds of the model                                                     *)

\* longest list of tool names drawn from the whole name pool
MaxNames == 3
\* longest list of tool names drawn from the colliding names alone
MaxRepeat == 11
\* longest messages array
MaxMsgs == 3
\* longest tools array of a Chat-Completions request
MaxTools == 2
\* longest input array of a Responses request
MaxItems == 3
\* largest suffix number makeUnique is followed to, step by step
MaxSuffix == 16

-----------------------------------------------------------------------------
(* Strings                                                                 *)

RECURSIVE Rep(_, _)
\* strings.Repeat(c, n)
Rep(c, n) ==
    IF n <= 0 THEN ""
    ELSE IF n = 1 THEN c
    ELSE Rep(c, n \div 2) \o Rep(c, n - (n \div 2))

\* s[:n] for n <= len(s)
Take(s, n) == SubSeq(s, 1, n)

\* s[i:] with a 0-based i
Drop(s, i) == SubSeq(s, i + 1, Len(s))

\* strings.HasPrefix
HasPrefix(s, p) == Len(s) >= Len(p) /\ Take(s, Len(p)) = p

\* strings.LastIndex: 0-based index of the last occurrence, -1 when none
LastIndex(s, sub) ==
    LET hits == {i \in 1..(Len(s) - Len(sub) + 1) : SubSeq(s, i, i + Len(sub) - 1) = sub}
    IN  IF hits = {} THEN -1
        ELSE (CHOOSE i \in hits : \A j \in hits : j <= i) - 1

Digits == "0123456789"

RECURSIVE Itoa(_)
\* strconv.Itoa for i >= 0
Itoa(i) ==
    IF i < 10 THEN SubSeq(Digits, i + 1, i + 1)
    ELSE Itoa(i \div 10) \o SubSeq(Digits, (i % 10) + 1, (i % 10) + 1)

Alphabet == "abcdefghijklmnopqrstuvwxyz0123456789_"

\* the byte value of a one-character string, as its place in Alphabet
Code(c) == CHOOSE i \in 1..Len(Alphabet) : SubSeq(Alphabet, i, i) = c

HexDigits == "0123456789abcdef"

HexDigit(n) == SubSeq(HexDigits, (n % 16) + 1, (n % 16) + 1)

RECURSIVE HexRange(_, _, _, _)
\* the hex digits lo..hi of the digest with sums a and b
HexRange(a, b, lo, hi) ==
    IF lo > hi THEN ""
    ELSE IF lo = hi THEN HexDigit(a * lo + b + lo * lo)
    ELSE HexRange(a, b, lo, (lo + hi) \div 2) \o HexRange(a, b, ((lo + hi) \div 2) + 1, hi)

RECURSIVE ByteSum(_, _, _, _)
\* the sum of the bytes lo..hi of s, each weighted by its index when weighted
ByteSum(s, lo, hi, weighted) ==
    IF lo > hi THEN 0
    ELSE IF lo = hi THEN (IF weighted THEN lo ELSE 1) * Code(SubSeq(s, lo, lo))
    ELSE ByteSum(s, lo, (lo + hi) \div 2, weighted)
         + ByteSum(s, ((lo + hi) \div 2) + 1, hi, weighted)

\* hex.EncodeToString(sha256.Sum256(id)): a digest of the bytes of id, written
\* as 64 hex digits.  The library's digest is replaced by a checksum of the
\* same shape: a function of the bytes alone, always 64 digits long.
Sha256Hex(id) ==
    LET a == ByteSum(id, 1, Len(id), FALSE) + Len(id)
        b == ByteSum(id, 1, Len(id), TRUE)
    IN  HexRange(a, b, 1, 64)

-----------------------------------------------------------------------------
(* Identifier shortener (chat-completions/codex_openai_request.go)          *)

\* const limit = 64
limit == 64

\* prefix := "call_"
prefix == "call_"

shortenCallID_Unbounded(id) ==
    IF Len(id) <= limit THEN id ELSE prefix \o Sha256Hex(id)

shortenCallID(id) ==
    IF Len(id) <= limit THEN id
    ELSE LET hash == Sha256Hex(id)
             available == IF limit - Len(prefix) < 0 THEN 0 ELSE limit - Len(prefix)
         IN  prefix \o (IF Len(hash) > available THEN Take(hash, available) ELSE hash)

\* a variant without the mcp__ rule: plain truncation
shortenNameIfNeeded_Truncates(n) == IF Len(n) <= limit THEN n ELSE Take(n, limit)

shortenNameIfNeeded(n) ==
    IF Len(n) <= limit THEN n
    ELSE IF HasPrefix(n, "mcp__") /\ LastIndex(n, "__") > 0
         THEN LET candidate == "mcp__" \o Drop(n, LastIndex(n, "__") + 2)
              IN  IF Len(candidate) > limit THEN Take(candidate, limit) ELSE candidate
         ELSE Take(n, limit)

\* the closure baseCandidate of buildShortNameMap
baseCandidate(n) ==
    IF Len(n) <= limit THEN n
    ELSE IF HasPrefix(n, "mcp__") /\ LastIndex(n, "__") > 0
         THEN LET cand == "mcp__" \o Drop(n, LastIndex(n, "__") + 2)
              IN  IF Len(cand) > limit THEN Take(cand, limit) ELSE cand
         ELSE Take(n, limit)

\* a variant that builds the suffix once, before the loop
suffixed_IgnoresCounter(base, i) ==
    LET suffix == "_" \o Itoa(1)
        allowed == IF limit - Len(suffix) < 0 THEN 0 ELSE limit - Len(suffix)
        tmp == IF Len(base) > allowed THEN Take(base, allowed) ELSE base
    IN  tmp \o suffix

\* one candidate of makeUnique's loop: base cut to make room for "_" + i
suffixed(base, i) ==
    LET suffix == "_" \o Itoa(i)
        allowed == IF limit - Len(suffix) < 0 THEN 0 ELSE limit - Len(suffix)
        tmp == IF Len(base) > allowed THEN Take(base, allowed) ELSE base
    IN  tmp \o suffix

RECURSIVE makeUniqueFrom(_, _, _)
\* the loop for i := 1; ; i++ of makeUnique, entered at i
makeUniqueFrom(base, used, i) ==
    IF suffixed(base, i) \notin used THEN suffixed(base, i)
    ELSE makeUniqueFrom(base, used, i + 1)

makeUnique_NoCheck(cand, used) == cand

makeUnique_NoRecut(cand, used) ==
    IF cand \notin used THEN cand
    ELSE LET first == CHOOSE i \in 1..(Cardinality(used) + 1) :
                          /\ (cand \o "_" \o Itoa(i)) \notin used
                          /\ \A j \in 1..(i - 1) : (cand \o "_" \o Itoa(j)) \in used
         IN  cand \o "_" \o Itoa(first)

\* the closure makeUnique of buildShortNameMap, over its captured set used
makeUnique(cand, used) ==
    IF cand \notin used THEN cand ELSE makeUniqueFrom(cand, used, 1)

\* the empty maps used := map[string]struct{}{} and m := map[string]string{}
EmptyNameMap == [used |-> {}, m |-> <<>>]

\* m[k] = v on a Go map held as a TLA+ function
MapPut(m, k, v) == [x \in (DOMAIN m) \cup {k} |-> IF x = k THEN v ELSE m[x]]

\* the body of for _, n := range names
assignName(st, n) ==
    LET uniq == makeUnique(baseCandidate(n), st.used)
    IN  [used |-> st.used \cup {uniq}, m |-> MapPut(st.m, n, uniq)]

RECURSIVE buildFrom(_, _, _)
buildFrom(st, ns, k) ==
    IF k > Len(ns) THEN st ELSE buildFrom(assignName(st, ns[k]), ns, k + 1)

\* buildShortNameMap(names): the map m, with the set used it ends with
buildShortNameMap(ns) == buildFrom(EmptyNameMap, ns, 1)

-----------------------------------------------------------------------------
(* JSON documents.  An object is a record, a field is present when its key  *)
(* is in the record's domain.  A value whose JSON type the code tests is    *)
(* tagged: [t |-> "string", s |-> ...], [t |-> "array", a |-> <<...>>],     *)
(* [t |-> "object", o |-> [...]]; Null is the result of a failed lookup.    *)

Null == [t |-> "null"]
JString(s) == [t |-> "string", s |-> s]
JArray(a) == [t |-> "array", a |-> a]
JObject(o) == [t |-> "object", o |-> o]
JBool(b) == [t |-> "bool", b |-> b]

\* gjson Result.Exists() of o.Get(k)
Has(o, k) == k \in DOMAIN o

\* o.Get(k) for a field holding a tagged value
Field(o, k) == IF Has(o, k) THEN o[k] ELSE Null

\* o.Get(k).String() for a field holding a string: "" when the field is absent
Str(o, k) == IF Has(o, k) THEN o[k] ELSE ""

\* o.Get("k1.k2").String()
Str2(o, k1, k2) == IF Has(o, k1) THEN Str(o[k1], k2) ELSE ""

IsArray(v) == v.t = "array"

\* Result.String() of a tagged value: the string itself, the raw JSON text of
\* an array, "" for a missing value
ValueString(v) ==
    IF v.t = "string" THEN v.s ELSE IF v.t = "array" THEN v.raw ELSE ""

\* a field set only when cond holds
Opt(cond, r) == IF cond THEN r ELSE <<>>

-----------------------------------------------------------------------------
(* ConvertOpenAIRequestToCodex (chat-completions/codex_openai_request.go)   *)

RECURSIVE collectToolNames(_, _)
\* the loop collecting the names of the function tools, from index i on
collectToolNames(arr, i) ==
    IF i > Len(arr) THEN <<>>
    ELSE LET t == arr[i]
             here == IF Str(t, "type") = "function" /\ Has(t, "function")
                        /\ Has(t.function, "name")
                     THEN <<t.function.name>> ELSE <<>>
         IN  here \o collectToolNames(arr, i + 1)

\* originalToolNameMap: the pre-pass over the tools array
toolNameMap(rawJSON) ==
    LET tools == Field(rawJSON, "tools")
    IN  IF IsArray(tools) /\ Len(tools.a) > 0 /\ Len(collectToolNames(tools.a, 1)) > 0
        THEN buildShortNameMap(collectToolNames(tools.a, 1)).m
        ELSE <<>>

\* if short, ok := originalToolNameMap[name]; ok { name = short } else
\* { name = shortenNameIfNeeded(name) }: at a tool call, a tool definition
\* and a tool_choice alike
resolveName(n, originalToolNameMap) ==
    IF n \in DOMAIN originalToolNameMap THEN originalToolNameMap[n]
    ELSE shortenNameIfNeeded(n)

chatNormalizeCallID_ForgetsHit(id, callIDMap) ==
    IF id = "" \/ Len(id) <= limit THEN [id |-> id, cache |-> callIDMap]
    ELSE IF id \in DOMAIN callIDMap THEN [id |-> Take(id, limit), cache |-> callIDMap]
    ELSE [id |-> shortenCallID(id), cache |-> MapPut(callIDMap, id, shortenCallID(id))]

\* the closure normalizeCallID over callIDMap: the identifier it returns and
\* the map it leaves
chatNormalizeCallID(id, callIDMap) ==
    IF id = "" \/ Len(id) <= limit THEN [id |-> id, cache |-> callIDMap]
    ELSE IF id \in DOMAIN callIDMap THEN [id |-> callIDMap[id], cache |-> callIDMap]
    ELSE [id |-> shortenCallID(id), cache |-> MapPut(callIDMap, id, shortenCallID(id))]

\* partType of a text part
\* a variant that marks every text part as input text
textPartType_AlwaysInput(role) == "input_text"

textPartType(role) == IF role = "assistant" THEN "output_text" ELSE "input_text"

\* one element of an array content: the parts it appends to msg.content
convertPart(role, it) ==
    IF Str(it, "type") = "text"
    THEN <<[type |-> textPartType(role), text |-> Str(it, "text")]>>
    ELSE IF Str(it, "type") = "image_url"
    THEN IF role = "user"
         THEN <<[type |-> "input_image"]
                 @@ Opt(Has(it, "image_url") /\ Has(it.image_url, "url"),
                        [image_url |-> Str2(it, "image_url", "url")])>>
         ELSE <<>>
    ELSE <<>>

RECURSIVE convertParts(_, _, _)
convertParts(role, items, j) ==
    IF j > Len(items) THEN <<>>
    ELSE convertPart(role, items[j]) \o convertParts(role, items, j + 1)

\* msg.content of the message item built from content c
convertContent(role, c) ==
    IF c.t = "string" /\ c.s # ""
    THEN <<[type |-> textPartType(role), text |-> c.s]>>
    ELSE IF c.t = "array" THEN convertParts(role, c.a, 1)
    ELSE <<>>

\* the role written on a message item
messageRole(role) == IF role = "system" THEN "developer" ELSE role

RECURSIVE convertToolCalls(_, _, _, _)
\* the loop over toolCallsArr from index j on; st is [input, cache]
convertToolCalls(st, arr, j, nameMapping) ==
    IF j > Len(arr) THEN st
    ELSE LET tc == arr[j]
             norm == chatNormalizeCallID(Str(tc, "id"), st.cache)
             funcCall == [type |-> "function_call",
                          call_id |-> norm.id,
                          name |-> resolveName(Str2(tc, "function", "name"), nameMapping),
                          arguments |-> Str2(tc, "function", "arguments")]
         IN  IF Str(tc, "type") = "function"
             THEN convertToolCalls([input |-> Append(st.input, funcCall), cache |-> norm.cache],
                                   arr, j + 1, nameMapping)
             ELSE convertToolCalls(st, arr, j + 1, nameMapping)

convertMessage_CallsFirst(st, m, nameMapping) ==
    LET role == Str(m, "role")
    IN  IF role = "tool"
        THEN LET norm == chatNormalizeCallID(Str(m, "tool_call_id"), st.cache)
             IN  [input |-> Append(st.input, [type |-> "function_call_output",
                                               call_id |-> norm.id,
                                               output |-> ValueString(Field(m, "content"))]),
                  cache |-> norm.cache]
        ELSE LET msg == [type |-> "message", role |-> messageRole(role),
                         content |-> convertContent(role, Field(m, "content"))]
                 calls == IF role = "assistant" /\ IsArray(Field(m, "tool_calls"))
                          THEN convertToolCalls([input |-> <<>>, cache |-> st.cache],
                                                m.tool_calls.a, 1, nameMapping)
                          ELSE [input |-> <<>>, cache |-> st.cache]
             IN  [input |-> st.input \o calls.input \o <<msg>>, cache |-> calls.cache]

\* the body of the loop over the messages: what one message appends to input
convertMessage(st, m, nameMapping) ==
    LET role == Str(m, "role")
    IN  IF role = "tool"
        THEN LET norm == chatNormalizeCallID(Str(m, "tool_call_id"), st.cache)
             IN  [input |-> Append(st.input, [type |-> "function_call_output",
                                               call_id |-> norm.id,
                                               output |-> ValueString(Field(m, "content"))]),
                  cache |-> norm.cache]
        ELSE LET msg == [type |-> "message", role |-> messageRole(role),
                         content |-> convertContent(role, Field(m, "content"))]
                 withMsg == [input |-> Append(st.input, msg), cache |-> st.cache]
             IN  IF role = "assistant" /\ IsArray(Field(m, "tool_calls"))
                 THEN convertToolCalls(withMsg, m.tool_calls.a, 1, nameMapping)
                 ELSE withMsg

RECURSIVE convertMessages(_, _, _, _)
convertMessages(st, arr, i, nameMapping) ==
    IF i > Len(arr) THEN st
    ELSE convertMessages(convertMessage(st, arr[i], nameMapping), arr, i + 1, nameMapping)

\* out.input: empty unless messages is an array
buildInput(rawJSON, nameMapping) ==
    LET messages == Field(rawJSON, "messages")
    IN  IF IsArray(messages)
        THEN convertMessages([input |-> <<>>, cache |-> <<>>], messages.a, 1, nameMapping).input
        ELSE <<>>

\* the text object mapped from response_format and text
buildText(rawJSON) ==
    LET rf == Field(rawJSON, "response_format")
        text == Field(rawJSON, "text")
        verbosity == Opt(text.t = "object" /\ Has(text.o, "verbosity"),
                         [verbosity |-> Str(text.o, "verbosity")])
    IN  IF rf.t # "null"
        THEN LET rft == IF rf.t = "object" THEN Str(rf.o, "type") ELSE ""
                 format ==
                     IF rft = "text" THEN [format |-> [type |-> "text"]]
                     ELSE IF rft = "json_schema" /\ Has(rf.o, "json_schema")
                     THEN LET js == rf.o.json_schema
                          IN  [format |-> [type |-> "json_schema"]
                                          @@ Opt(Has(js, "name"), [name |-> Str(js, "name")])
                                          @@ Opt(Has(js, "strict"), [strict |-> Str(js, "strict")])
                                          @@ Opt(Has(js, "schema"), [schema |-> Str(js, "schema")])]
                     ELSE <<>>
             IN  [text |-> format @@ verbosity]
        ELSE IF text.t = "object" /\ Has(text.o, "verbosity")
        THEN [text |-> verbosity]
        ELSE <<>>

\* one element of the tools array: the entries it appends to out.tools
convertTool(t, nameMapping) ==
    LET toolType == Str(t, "type")
    IN  IF toolType # "" /\ toolType # "function" THEN <<t>>
        ELSE IF toolType = "function"
        THEN IF Has(t, "function")
             THEN LET fn == t.function
                  IN  <<[type |-> "function"]
                        @@ Opt(Has(fn, "name"), [name |-> resolveName(Str(fn, "name"), nameMapping)])
                        @@ Opt(Has(fn, "description"), [description |-> Str(fn, "description")])
                        @@ Opt(Has(fn, "parameters"), [parameters |-> Str(fn, "parameters")])
                        @@ Opt(Has(fn, "strict"), [strict |-> Str(fn, "strict")])>>
             ELSE <<[type |-> "function"]>>
        ELSE <<>>

RECURSIVE convertTools(_, _, _)
convertTools(arr, i, nameMapping) ==
    IF i > Len(arr) THEN <<>>
    ELSE convertTool(arr[i], nameMapping) \o convertTools(arr, i + 1, nameMapping)

\* the tools field of the output, set only for a non-empty tools array
buildTools(rawJSON, nameMapping) ==
    LET tools == Field(rawJSON, "tools")
    IN  Opt(IsArray(tools) /\ Len(tools.a) > 0,
            [tools |-> convertTools(tools.a, 1, nameMapping)])

\* the tool_choice field of the output
buildToolChoice(rawJSON, nameMapping) ==
    LET tc == Field(rawJSON, "tool_choice")
    IN  IF tc.t = "string" THEN [tool_choice |-> tc.s]
        ELSE IF tc.t = "object"
        THEN LET tcType == Str(tc.o, "type")
                 n == Str2(tc.o, "function", "name")
             IN  IF tcType = "function"
                 THEN [tool_choice |-> [type |-> "function"]
                                       @@ Opt(n # "", [name |-> resolveName(n, nameMapping)])]
                 ELSE IF tcType # "" THEN [tool_choice |-> tc.o]
                 ELSE <<>>
        ELSE <<>>

\* a variant with the commented-out sampling fields (lines 40-57) switched on
ConvertOpenAIRequestToCodex_ForwardsSampling(modelName, rawJSON, stream) ==
    LET nameMapping == toolNameMap(rawJSON)
    IN  [instructions |-> "", stream |-> stream,
         reasoning |-> [effort |-> IF Has(rawJSON, "reasoning_effort")
                                   THEN rawJSON.reasoning_effort ELSE "medium",
                        summary |-> "auto"],
         parallel_tool_calls |-> TRUE,
         include |-> <<"reasoning.encrypted_content">>,
         model |-> modelName,
         input |-> buildInput(rawJSON, nameMapping),
         store |-> FALSE]
        @@ Opt(Has(rawJSON, "temperature"), [temperature |-> Field(rawJSON, "temperature")])
        @@ Opt(Has(rawJSON, "top_p"), [top_p |-> Field(rawJSON, "top_p")])
        @@ buildText(rawJSON) @@ buildTools(rawJSON, nameMapping) @@ buildToolChoice(rawJSON, nameMapping)

\* ConvertOpenAIRequestToCodex(modelName, inputRawJSON, stream)
ConvertOpenAIRequestToCodex(modelName, rawJSON, stream) ==
    LET nameMapping == toolNameMap(rawJSON)
    IN  [instructions |-> "",
         stream |-> stream,
         reasoning |-> [effort |-> IF Has(rawJSON, "reasoning_effort")
                                   THEN rawJSON.reasoning_effort ELSE "medium",
                        summary |-> "auto"],
         parallel_tool_calls |-> TRUE,
         include |-> <<"reasoning.encrypted_content">>,
         model |-> modelName,
         input |-> buildInput(rawJSON, nameMapping),
         store |-> FALSE]
        @@ buildText(rawJSON)
        @@ buildTools(rawJSON, nameMapping)
        @@ buildToolChoice(rawJSON, nameMapping)

-----------------------------------------------------------------------------
(* ConvertOpenAIResponsesRequestToCodex                                     *)
(* (responses/codex_openai-responses_request.go)                            *)
(*                                                                         *)
(* The request is edited in place by sjson, so the top-level object is held *)
(* as the ordered list of its members [k, v]: setting a present key         *)
(* replaces its value where it stands, setting an absent key appends a      *)
(* member, deleting a key removes its member.  The names of an object are   *)
(* distinct, as in every document a JSON encoder writes.  The items of      *)
(* input are records.                                                       *)

KeyIndex(doc, k) ==
    LET hits == {i \in 1..Len(doc) : doc[i].k = k}
    IN  IF hits = {} THEN 0 ELSE CHOOSE i \in hits : \A j \in hits : i <= j

\* gjson.GetBytes(doc, k)
GetKey(doc, k) == IF KeyIndex(doc, k) = 0 THEN Null ELSE doc[KeyIndex(doc, k)].v

\* sjson.SetBytes(doc, k, v)
SetKey(doc, k, v) ==
    IF KeyIndex(doc, k) = 0 THEN Append(doc, [k |-> k, v |-> v])
    ELSE [doc EXCEPT ![KeyIndex(doc, k)].v = v]

\* sjson.DeleteBytes(doc, k)
DeleteKey(doc, k) ==
    IF KeyIndex(doc, k) = 0 THEN doc
    ELSE SubSeq(doc, 1, KeyIndex(doc, k) - 1) \o SubSeq(doc, KeyIndex(doc, k) + 1, Len(doc))

\* the array a bare string input is wrapped into
wrapStringInput(doc) ==
    LET inputResult == GetKey(doc, "input")
    IN  IF inputResult.t = "string"
        THEN SetKey(doc, "input",
                    JArray(<<[type |-> "message", role |-> "user",
                              content |-> JArray(<<[type |-> "input_text",
                                                    text |-> inputResult.s]>>)]>>))
        ELSE doc

\* the four fields forced on every request
forceFields(doc) ==
    SetKey(SetKey(SetKey(SetKey(doc, "stream", JBool(TRUE)),
                         "store", JBool(FALSE)),
                  "parallel_tool_calls", JBool(TRUE)),
           "include", JArray(<<"reasoning.encrypted_content">>))

stripUnsupported_KeepsUser(doc) ==
    DeleteKey(DeleteKey(DeleteKey(DeleteKey(DeleteKey(doc,
        "max_output_tokens"), "max_completion_tokens"), "temperature"), "top_p"),
        "service_tier")

\* the fields the backend rejects, deleted one after the other
stripUnsupported(doc) ==
    DeleteKey(DeleteKey(DeleteKey(DeleteKey(DeleteKey(DeleteKey(doc,
        "max_output_tokens"), "max_completion_tokens"), "temperature"), "top_p"),
        "service_tier"), "user")

\* sjson.SetBytes(result, "input.<i>.<field>", value), for an input array
SetItemField(doc, i, field, value) ==
    LET items == GetKey(doc, "input").a
        item == items[i]
        changed == [x \in (DOMAIN item) \cup {field} |-> IF x = field THEN value ELSE item[x]]
    IN  SetKey(doc, "input", [GetKey(doc, "input") EXCEPT !.a = [items EXCEPT ![i] = changed]])

RECURSIVE rewriteRoles(_, _, _)
\* the loop of convertSystemRoleToDeveloper from item i on, n items in all
rewriteRoles(result, i, n) ==
    IF i > n THEN result
    ELSE IF Str(GetKey(result, "input").a[i], "role") = "system"
         THEN rewriteRoles(SetItemField(result, i, "role", "developer"), i + 1, n)
         ELSE rewriteRoles(result, i + 1, n)

convertSystemRoleToDeveloper_FirstOnly(rawJSON) ==
    IF ~IsArray(GetKey(rawJSON, "input")) THEN rawJSON
    ELSE rewriteRoles(rawJSON, 1, IF Len(GetKey(rawJSON, "input").a) > 0 THEN 1 ELSE 0)

convertSystemRoleToDeveloper(rawJSON) ==
    IF ~IsArray(GetKey(rawJSON, "input")) THEN rawJSON
    ELSE rewriteRoles(rawJSON, 1, Len(GetKey(rawJSON, "input").a))

normalizeCallID_OffByOne(id, cache) ==
    IF id = "" \/ Len(id) < limit THEN [id |-> id, cache |-> cache]
    ELSE IF id \in DOMAIN cache THEN [id |-> cache[id], cache |-> cache]
    ELSE LET hash == Sha256Hex(id)
             available == IF limit - Len(prefix) < 0 THEN 0 ELSE limit - Len(prefix)
             short == prefix \o (IF Len(hash) > available THEN Take(hash, available) ELSE hash)
         IN  [id |-> short, cache |-> MapPut(cache, id, short)]

\* normalizeCallID(id, cache): the identifier it returns and the cache it
\* leaves (the callers pass a map, never nil)
normalizeCallID(id, cache) ==
    IF id = "" \/ Len(id) <= limit THEN [id |-> id, cache |-> cache]
    ELSE IF id \in DOMAIN cache THEN [id |-> cache[id], cache |-> cache]
    ELSE LET hash == Sha256Hex(id)
             available == IF limit - Len(prefix) < 0 THEN 0 ELSE limit - Len(prefix)
             short == prefix \o (IF Len(hash) > available THEN Take(hash, available) ELSE hash)
         IN  [id |-> short, cache |-> MapPut(cache, id, short)]

RECURSIVE normalizeItems(_, _, _, _)
\* the loop of normalizeInputCallIDs over items, the array read before the loop
normalizeItems(result, items, i, callIDMap) ==
    IF i > Len(items) THEN result
    ELSE LET callID == Str(items[i], "call_id")
             norm == normalizeCallID(callID, callIDMap)
         IN  IF callID = "" THEN normalizeItems(result, items, i + 1, callIDMap)
             ELSE IF norm.id = callID THEN normalizeItems(result, items, i + 1, norm.cache)
             ELSE normalizeItems(SetItemField(result, i, "call_id", norm.id),
                                 items, i + 1, norm.cache)

normalizeInputCallIDs(rawJSON) ==
    IF ~IsArray(GetKey(rawJSON, "input")) THEN rawJSON
    ELSE normalizeItems(rawJSON, GetKey(rawJSON, "input").a, 1, <<>>)

\* ConvertOpenAIResponsesRequestToCodex(modelName, inputRawJSON, _)
ConvertOpenAIResponsesRequestToCodex(modelName, rawJSON, stream) ==
    normalizeInputCallIDs(
        convertSystemRoleToDeveloper(
            stripUnsupported(forceFields(wrapStringInput(rawJSON)))))

-----------------------------------------------------------------------------
(* Inputs of the identifier shortener                                      *)

A64 == Rep("a", 64)
LongB == A64 \o "b"
LongC == A64 \o "c"
A62_1 == Rep("a", 62) \o "_1"
McpN == "mcp__" \o Rep("n", 58) \o "__read"
McpO == "mcp__" \o Rep("o", 58) \o "__read"
McpX == "mcp__" \o Rep("x", 70)
\* two namespace segments and a last segment of more than 64 characters
McpDeep == "mcp__" \o Rep("p", 50) \o "__fs__" \o Rep("s", 70)

\* tool names: short ones, one of exactly 64 characters, long ones that cut to
\* the same candidate, a short one equal to a suffixed candidate, mcp__ names
NamePool == {"", "foo", "mcp__read", A64, A62_1, LongB, LongC, McpN, McpO, McpX, McpDeep}

\* long names that all cut to the candidate A64
CollidingPool == {LongB, LongC}

SeqsUpTo(S, n) == UNION {[1..k -> S] : k \in 0..n}

NameLists == SeqsUpTo(NamePool, MaxNames) \cup SeqsUpTo(CollidingPool, MaxRepeat)

\* call identifiers: empty, short, exactly 64 characters, longer than 64
Id64 == Rep("i", 64)
LongIdA == Rep("a", 80)
LongIdB == Rep("b", 65)
FnCall(id, n, args) ==
    [type |-> "function", id |-> id, function |-> [name |-> n, arguments |-> args]]

\* the messages a request is built from
SystemMsg == [role |-> "system", content |-> JString("Be terse.")]
UserPartsMsg ==
    [role |-> "user",
     content |-> [t |-> "array", raw |-> "[user parts]",
                  a |-> <<[type |-> "text", text |-> "Hi"],
                          [type |-> "image_url", image_url |-> [url |-> "http://img"]],
                          [type |-> "file", file |-> "f.pdf"],
                          [type |-> "text", text |-> "there"]>>]]
AssistantCallsMsg ==
    [role |-> "assistant", content |-> JString("calling"),
     tool_calls |-> JArray(<<FnCall(LongIdA, "foo", "{1}"),
                             [type |-> "custom", id |-> "call_custom"],
                             FnCall("call_abc", LongB, "{2}")>>)]
AssistantMcpMsg ==
    [role |-> "assistant",
     tool_calls |-> JArray(<<FnCall(LongIdB, McpN, "{3}"), FnCall(LongIdA, "", "{4}")>>)]
AssistantPartsMsg ==
    [role |-> "assistant",
     content |-> [t |-> "array", raw |-> "[assistant parts]",
                  a |-> <<[type |-> "text", text |-> "Sure"],
                          [type |-> "image_url", image_url |-> [url |-> "http://img"]]>>]]
ToolMsgA == [role |-> "tool", tool_call_id |-> LongIdA, content |-> JString("42")]
ToolMsgShort == [role |-> "tool", tool_call_id |-> "call_abc"]
UserCallsMsg ==
    [role |-> "user", content |-> JString(""),
     tool_calls |-> JArray(<<FnCall(LongIdA, "foo", "{5}")>>)]
NoRoleMsg == [content |-> JString("anonymous")]

MsgPool ==
    {SystemMsg, UserPartsMsg, AssistantCallsMsg, AssistantMcpMsg, AssistantPartsMsg,
     ToolMsgA, ToolMsgShort, UserCallsMsg, NoRoleMsg}

FnTool(n) ==
    [type |-> "function",
     function |-> [name |-> n, description |-> "d", parameters |-> "{schema}"]]

\* the entries a tools array is built from
ToolPool ==
    {FnTool("foo"), FnTool(""), FnTool(LongB), FnTool(LongC), FnTool(McpN),
     [type |-> "web_search"],
     [function |-> [name |-> "untyped"]],
     [type |-> "function"],
     [type |-> "function", function |-> [strict |-> TRUE]]}

ToolChoicePool ==
    {Null, JString("auto"),
     JObject([type |-> "function", function |-> [name |-> "foo"]]),
     JObject([type |-> "function", function |-> [name |-> LongB]]),
     JObject([type |-> "function", function |-> [name |-> ""]]),
     JObject([type |-> "web_search"]),
     JObject([name |-> "typeless"])}

\* a request document from its optional parts
ChatRequest(messages, tools, choice, extras) ==
    Opt(messages.t # "null", [messages |-> messages])
    @@ Opt(tools.t # "null", [tools |-> tools])
    @@ Opt(choice.t # "null", [tool_choice |-> choice])
    @@ extras

ExtrasPool ==
    {<<>>,
     [reasoning_effort |-> "high", temperature |-> "0.5", max_tokens |-> "10"],
     [response_format |-> JObject([type |-> "text"]), top_p |-> "1"],
     [response_format |-> JObject([type |-> "json_schema",
                                   json_schema |-> [name |-> "N", strict |-> TRUE,
                                                    schema |-> "{schema}"]]),
      text |-> JObject([verbosity |-> "low"])],
     [response_format |-> JObject([type |-> "json_schema"])],
     [response_format |-> JString("text"), max_completion_tokens |-> "5", top_k |-> "3"],
     [text |-> JObject([verbosity |-> "high"])],
     [text |-> JString("plain")]}

MessageLists == SeqsUpTo(MsgPool, MaxMsgs)
ToolLists == SeqsUpTo(ToolPool, MaxTools)

\* requests whose messages vary, over a few tools arrays
RequestsByMessages ==
    {ChatRequest(messages, tools, Null, <<>>) :
        messages \in {JArray(ms) : ms \in MessageLists} \cup {Null, JString("hello")},
        tools \in {Null, JArray(<<FnTool(LongC), FnTool("foo"), FnTool(LongB)>>)}}

\* requests whose tools and tool_choice vary, over a few messages arrays
RequestsByTools ==
    {ChatRequest(JArray(ms), tools, choice, <<>>) :
        ms \in {<<AssistantCallsMsg, ToolMsgA>>, <<AssistantMcpMsg>>},
        tools \in {JArray(ts) : ts \in ToolLists} \cup {Null, JString("none")},
        choice \in ToolChoicePool}

\* requests whose remaining fields vary
RequestsByExtras ==
    {ChatRequest(messages, Null, Null, extras) :
        messages \in {Null, JArray(<<SystemMsg, UserPartsMsg>>)},
        extras \in ExtrasPool}

ChatRequests == RequestsByMessages \cup RequestsByTools \cup RequestsByExtras

\* the items an input array is built from
ItemPool ==
    {[type |-> "message", role |-> "system",
      content |-> JArray(<<[type |-> "input_text", text |-> "You are a pirate."]>>)],
     [type |-> "message", role |-> "user", content |-> JString("Say hello.")],
     [type |-> "message", role |-> "assistant",
      content |-> JArray(<<[type |-> "output_text", text |-> "Hi!"]>>)],
     [type |-> "function_call", call_id |-> LongIdA, name |-> "foo", arguments |-> "{}"],
     [type |-> "function_call_output", call_id |-> LongIdA, output |-> "ok"],
     [type |-> "function_call", call_id |-> Id64, name |-> "foo", arguments |-> "{}"],
     [type |-> "function_call_output", call_id |-> "", output |-> "empty"],
     [type |-> "item_reference", id |-> "rs_1"],
     [role |-> "system", call_id |-> LongIdB]}

ItemLists == SeqsUpTo(ItemPool, MaxItems)

Member(k, v) == <<[k |-> k, v |-> v]>>
JNumber(n) == [t |-> "number", n |-> n]

BaseDoc == Member("model", JString("gpt-5.2"))

\* requests whose input array varies
ResponsesByInput == {BaseDoc \o Member("input", JArray(items)) : items \in ItemLists}

InputMembers ==
    {<<>>, Member("input", JString("Say hi")), Member("input", JString("")),
     Member("input", JNumber(7)), Member("input", JArray(<<>>)),
     Member("input", JArray(<<[role |-> "system", content |-> JString("Be terse.")],
                              [type |-> "function_call", call_id |-> LongIdA]>>))}

OtherMembers ==
    {<<>>,
     Member("stream", JBool(FALSE)),
     Member("store", JBool(TRUE)) \o Member("user", JString("test-user"))
        \o Member("temperature", JNumber(1)),
     Member("max_output_tokens", JNumber(100)) \o Member("top_p", JNumber(1))
        \o Member("service_tier", JString("flex")) \o Member("stream", JBool(TRUE)),
     Member("max_completion_tokens", JNumber(5)) \o Member("include", JArray(<<"other">>))
        \o Member("parallel_tool_calls", JBool(FALSE)) \o Member("tools", JArray(<<>>)),
     Member("user", JString("u")) \o Member("stream", JBool(FALSE))
        \o Member("store", JBool(FALSE)) \o Member("reasoning", JString("r"))}

\* requests whose other members vary, before and after the input member
ResponsesByMembers ==
    {BaseDoc \o i \o e : i \in InputMembers, e \in OtherMembers}
    \cup {e \o i \o BaseDoc : i \in InputMembers, e \in OtherMembers}

ResponsesRequests == ResponsesByInput \cup ResponsesByMembers

NoRequest == [kind |-> "none"]

\* the locals of buildShortNameMap outside a step-by-step run
NoLoop == [k |-> 0, i |-> 0, base |-> ""]

InitNames ==
    /\ op \in {"build", "shorten"}
    /\ pc = "start"
    /\ names \in (IF op = "build" THEN NameLists ELSE {<<>>})
    /\ name \in (IF op = "shorten" THEN NamePool ELSE {""})
    /\ nameMap = EmptyNameMap
    /\ alias = ""
    /\ req = NoRequest /\ out = NoRequest
    /\ rreq = NoRequest /\ rout = NoRequest /\ rout2 = NoRequest
    /\ loop = NoLoop

\* a call of buildShortNameMap(names)
BuildShortNameMap ==
    /\ op = "build" /\ pc = "start"
    /\ nameMap' = buildShortNameMap(names)
    /\ pc' = "done"
    /\ UNCHANGED <<op, names, name, alias, req, out, rreq, rout, rout2, loop>>

\* a call of shortenNameIfNeeded(name)
ShortenNameIfNeeded ==
    /\ op = "shorten" /\ pc = "start"
    /\ alias' = shortenNameIfNeeded(name)
    /\ pc' = "done"
    /\ UNCHANGED <<op, names, name, nameMap, req, out, rreq, rout, rout2, loop>>

NextNames == BuildShortNameMap \/ ShortenNameIfNeeded

SpecNames == InitNames /\ [][NextNames]_vars

\* lists for buildShortNameMap run step by step: short and long names that
\* collide in every way, and one long name declared up to MaxRepeat times
PrePassPool == {"foo", A62_1, LongB, LongC, McpN, McpO}
PrePassLists ==
    SeqsUpTo(PrePassPool, MaxNames) \cup {[j \in 1..r |-> LongB] : r \in 0..MaxRepeat}

InitPrePass ==
    /\ op = "prepass"
    /\ pc = "range"
    /\ names \in PrePassLists
    /\ nameMap = EmptyNameMap
    /\ loop = [k |-> 1, i |-> 0, base |-> ""]
    /\ name = "" /\ alias = ""
    /\ req = NoRequest /\ out = NoRequest
    /\ rreq = NoRequest /\ rout = NoRequest /\ rout2 = NoRequest

\* used[uniq] = struct{}{}; m[n] = uniq, and on to the next name
Assign(uniq) ==
    /\ nameMap' = [used |-> nameMap.used \cup {uniq},
                   m |-> MapPut(nameMap.m, names[loop.k], uniq)]
    /\ loop' = [k |-> loop.k + 1, i |-> 0, base |-> ""]
    /\ pc' = "range"

\* for _, n := range names: cand := baseCandidate(n) and the first test of
\* makeUnique, which returns cand when it is unused and enters its loop if not
RangeNames ==
    /\ op = "prepass" /\ pc = "range"
    /\ loop.k <= Len(names)
    /\ LET cand == baseCandidate(names[loop.k])
       IN  IF cand \notin nameMap.used
           THEN Assign(cand)
           ELSE /\ pc' = "search"
                /\ loop' = [k |-> loop.k, i |-> 1, base |-> cand]
                /\ UNCHANGED nameMap
    /\ UNCHANGED <<op, names, name, alias, req, out, rreq, rout, rout2>>

\* one iteration of for i := 1; ; i++ in makeUnique
TrySuffix ==
    /\ op = "prepass" /\ pc = "search"
    /\ loop.i <= MaxSuffix
    /\ LET tmp == suffixed(loop.base, loop.i)
       IN  IF tmp \notin nameMap.used
           THEN Assign(tmp)
           ELSE /\ loop' = [loop EXCEPT !.i = @ + 1]
                /\ UNCHANGED <<pc, nameMap>>
    /\ UNCHANGED <<op, names, name, alias, req, out, rreq, rout, rout2>>

\* return m
ReturnMap ==
    /\ op = "prepass" /\ pc = "range"
    /\ loop.k > Len(names)
    /\ pc' = "done"
    /\ UNCHANGED <<op, names, name, nameMap, alias, req, out, rreq, rout, rout2, loop>>

NextPrePass == RangeNames \/ TrySuffix \/ ReturnMap

\* buildShortNameMap one loop iteration at a time; the function is sequential
\* code that always takes its next step
SpecPrePass == InitPrePass /\ [][NextPrePass]_vars /\ WF_vars(NextPrePass)

InitChat ==
    /\ op = "chat"
    /\ pc = "start"
    /\ req \in {[modelName |-> "gpt-5", stream |-> TRUE, rawJSON |-> r] : r \in ChatRequests}
               \cup {[modelName |-> mn, stream |-> st, rawJSON |-> r] :
                        mn \in {"gpt-5", ""}, st \in BOOLEAN, r \in RequestsByExtras}
    /\ out = NoRequest
    /\ names = <<>> /\ name = "" /\ nameMap = EmptyNameMap /\ alias = ""
    /\ rreq = NoRequest /\ rout = NoRequest /\ rout2 = NoRequest
    /\ loop = NoLoop

\* a call of ConvertOpenAIRequestToCodex
ConvertChat ==
    /\ op = "chat" /\ pc = "start"
    /\ out' = ConvertOpenAIRequestToCodex(req.modelName, req.rawJSON, req.stream)
    /\ pc' = "done"
    /\ UNCHANGED <<op, names, name, nameMap, alias, req, rreq, rout, rout2, loop>>

ChatDone == op = "chat" /\ pc = "done"

InitResponses ==
    /\ op = "responses"
    /\ pc = "start"
    /\ rreq \in {[modelName |-> "gpt-5.2", rawJSON |-> r] : r \in ResponsesRequests}
    /\ rout = NoRequest /\ rout2 = NoRequest
    /\ names = <<>> /\ name = "" /\ nameMap = EmptyNameMap /\ alias = ""
    /\ req = NoRequest /\ out = NoRequest
    /\ loop = NoLoop

\* a call of ConvertOpenAIResponsesRequestToCodex on the request
ConvertResponses ==
    /\ op = "responses" /\ pc = "start"
    /\ rout' = ConvertOpenAIResponsesRequestToCodex(rreq.modelName, rreq.rawJSON, FALSE)
    /\ pc' = "done"
    /\ UNCHANGED <<op, names, name, nameMap, alias, req, out, rreq, rout2, loop>>

\* a second call of ConvertOpenAIResponsesRequestToCodex, on the result of the first
ConvertResponsesAgain ==
    /\ op = "responses" /\ pc = "done"
    /\ rout2' = ConvertOpenAIResponsesRequestToCodex(rreq.modelName, rout, FALSE)
    /\ pc' = "again"
    /\ UNCHANGED <<op, names, name, nameMap, alias, req, out, rreq, rout, loop>>

Init == InitChat \/ InitResponses

Next == ConvertChat \/ ConvertResponses \/ ConvertResponsesAgain

\* both converters
Spec == Init /\ [][Next]_vars

ResponsesDone == op = "responses" /\ pc \in {"done", "again"}

Built == op = "build" /\ pc = "done"
Shortened == op = "shorten" /\ pc = "done"
Range(f) == {f[x] : x \in DOMAIN f}
-----------------------------------------------------------------------------
(* C3: name uniqueness.  After buildShortNameMap has processed a list of    *)
(* names, any two distinct original names have distinct aliases.            *)
NameUniqueness ==
    Built => \A a, b \in DOMAIN nameMap.m : a # b => nameMap.m[a] # nameMap.m[b]

\* two long names cut to the same candidate and the first suffixed candidate
\* is the alias of a third name, so the search went on to _2
NameUniquenessWitness ==
    /\ Built
    /\ names = <<LongB, A62_1, LongC>>
    /\ nameMap.m[LongB] = A64
    /\ nameMap.m[A62_1] = A62_1
    /\ nameMap.m[LongC] = Rep("a", 62) \o "_2"

(* C4: name length bound.  Every alias produced, by shortenNameIfNeeded or  *)
(* by buildShortNameMap (the aliases it assigned are the set used), is at   *)
(* most 64 characters long, after any number of collision suffixes.         *)
NameLengthBound ==
    /\ Built => /\ \A u \in nameMap.used : Len(u) <= limit
                /\ \A n \in DOMAIN nameMap.m : Len(nameMap.m[n]) <= limit
    /\ Shortened => Len(alias) <= limit

\* the search reached a two-digit suffix and cut the base to 61 characters
NameLengthBoundWitness ==
    /\ Built
    /\ Len(names) >= 11
    /\ (Rep("a", 61) \o "_10") \in nameMap.used
    /\ (Rep("a", 62) \o "_9") \in nameMap.used

(* C5: short names are left unchanged.  A name of at most 64 characters is  *)
(* mapped to itself by shortenNameIfNeeded and by buildShortNameMap,        *)
(* whatever other names are in the list.                                    *)
ShortNamesUnchanged ==
    /\ Built => \A n \in DOMAIN nameMap.m : Len(n) <= limit => nameMap.m[n] = n
    /\ Shortened => (Len(name) <= limit => alias = name)

-----------------------------------------------------------------------------
(* Where each item of the output input[] comes from, as the message         *)
(* transform is described: per message in order, one "output" item for a    *)
(* tool message, otherwise one "message" item followed, for an assistant,   *)
(* by one "call" item per function-type tool call in call order.            *)

RECURSIVE CallSources(_, _, _)
CallSources(i, calls, j) ==
    IF j > Len(calls) THEN <<>>
    ELSE (IF Str(calls[j], "type") = "function"
          THEN <<[msg |-> i, kind |-> "call", call |-> j]>> ELSE <<>>)
         \o CallSources(i, calls, j + 1)

RECURSIVE ItemSourcesFrom(_, _)
ItemSourcesFrom(msgs, i) ==
    IF i > Len(msgs) THEN <<>>
    ELSE (IF Str(msgs[i], "role") = "tool"
          THEN <<[msg |-> i, kind |-> "output", call |-> 0]>>
          ELSE <<[msg |-> i, kind |-> "message", call |-> 0]>>
               \o (IF Str(msgs[i], "role") = "assistant" /\ IsArray(Field(msgs[i], "tool_calls"))
                   THEN CallSources(i, msgs[i].tool_calls.a, 1) ELSE <<>>))
         \o ItemSourcesFrom(msgs, i + 1)

ChatMessages ==
    IF IsArray(Field(req.rawJSON, "messages")) THEN req.rawJSON.messages.a ELSE <<>>

ItemSources == ItemSourcesFrom(ChatMessages, 1)

\* the original call identifier of the item with source src
SourceCallID(src) ==
    IF src.kind = "call" THEN Str(ChatMessages[src.msg].tool_calls.a[src.call], "id")
    ELSE Str(ChatMessages[src.msg], "tool_call_id")

\* the positions of the output input[] that carry a call_id
CallPositions == {k \in 1..Len(ItemSources) : ItemSources[k].kind # "message"}

ResponsesInput ==
    IF IsArray(GetKey(rreq.rawJSON, "input")) THEN GetKey(rreq.rawJSON, "input").a ELSE <<>>

ResponsesOutput ==
    IF IsArray(GetKey(rout, "input")) THEN GetKey(rout, "input").a ELSE <<>>

\* the positions of a Responses input array whose item has a call_id
ResponsesCallPositions == {k \in 1..Len(ResponsesInput) : Has(ResponsesInput[k], "call_id")}

(* C1: call-id correlation.  In the output of either converter, two items   *)
(* that carried the same original call identifier carry the same call_id,   *)
(* whether or not the identifier was longer than 64 characters.             *)
CallIdCorrelation ==
    /\ ChatDone =>
         /\ Len(out.input) = Len(ItemSources)
         /\ \A k1, k2 \in CallPositions :
                SourceCallID(ItemSources[k1]) = SourceCallID(ItemSources[k2])
                    => out.input[k1].call_id = out.input[k2].call_id
    /\ (ResponsesDone /\ IsArray(GetKey(rreq.rawJSON, "input"))) =>
         /\ Len(ResponsesOutput) = Len(ResponsesInput)
         /\ \A k1, k2 \in ResponsesCallPositions :
                ResponsesInput[k1].call_id = ResponsesInput[k2].call_id
                    => /\ Has(ResponsesOutput[k1], "call_id") /\ Has(ResponsesOutput[k2], "call_id")
                       /\ ResponsesOutput[k1].call_id = ResponsesOutput[k2].call_id

\* the repository's test: a function_call and its function_call_output with
\* the same 80-character call_id, both shortened to one value
CallIdCorrelationWitness ==
    /\ ResponsesDone
    /\ \E k1, k2 \in ResponsesCallPositions :
          /\ k1 # k2
          /\ Str(ResponsesInput[k1], "type") = "function_call"
          /\ Str(ResponsesInput[k2], "type") = "function_call_output"
          /\ ResponsesInput[k1].call_id = LongIdA
          /\ ResponsesInput[k2].call_id = LongIdA
          /\ ResponsesOutput[k1].call_id = ResponsesOutput[k2].call_id
          /\ ResponsesOutput[k1].call_id # LongIdA

\* what C2 says of one identifier and the value it became
ShortenedAsSpecified(id, short) ==
    IF Len(id) <= limit THEN short = id
    ELSE HasPrefix(short, "call_") /\ Len(short) <= limit

(* C2: call-identifier shortening.  An identifier of at most 64 characters  *)
(* (the empty one, one of exactly 64) is returned unchanged; a longer one   *)
(* becomes a value that starts with "call_", is at most 64 long, and is the *)
(* same at every occurrence of that identifier within the call.             *)
CallIdShortening ==
    /\ ChatDone =>
         /\ Len(out.input) = Len(ItemSources)
         /\ \A k \in CallPositions :
                /\ ShortenedAsSpecified(SourceCallID(ItemSources[k]), out.input[k].call_id)
                /\ out.input[k].call_id = shortenCallID(SourceCallID(ItemSources[k]))
    /\ (ResponsesDone /\ IsArray(GetKey(rreq.rawJSON, "input"))) =>
         /\ Len(ResponsesOutput) = Len(ResponsesInput)
         /\ \A k \in ResponsesCallPositions :
                /\ ShortenedAsSpecified(ResponsesInput[k].call_id, ResponsesOutput[k].call_id)
                /\ ResponsesOutput[k].call_id = normalizeCallID(ResponsesInput[k].call_id, <<>>).id

\* one input array with the empty identifier, one of exactly 64 characters and
\* a longer one: the first two unchanged, the third shortened
CallIdShorteningWitness ==
    /\ ResponsesDone
    /\ \E k1, k2, k3 \in ResponsesCallPositions :
          /\ ResponsesInput[k1].call_id = "" /\ ResponsesOutput[k1].call_id = ""
          /\ ResponsesInput[k2].call_id = Id64 /\ ResponsesOutput[k2].call_id = Id64
          /\ ResponsesInput[k3].call_id = LongIdA
          /\ Len(ResponsesOutput[k3].call_id) = limit
          /\ HasPrefix(ResponsesOutput[k3].call_id, "call_")

-----------------------------------------------------------------------------
\* the names the tools array declares
DeclaredNames ==
    IF IsArray(Field(req.rawJSON, "tools"))
    THEN Range(collectToolNames(req.rawJSON.tools.a, 1)) ELSE {}

\* the tools that have an entry in the output tools array, in order
KeptTools ==
    IF IsArray(Field(req.rawJSON, "tools"))
    THEN SelectSeq(req.rawJSON.tools.a, LAMBDA t : Str(t, "type") # "") ELSE <<>>

Declares(t, n) ==
    Str(t, "type") = "function" /\ Has(t, "function") /\ Has(t.function, "name")
    /\ t.function.name = n

\* the output names of the definitions of n in tools[]
DefinitionNames(n) ==
    {Str(out.tools[k], "name") : k \in {j \in 1..Len(KeptTools) : Declares(KeptTools[j], n)}}

\* the output names of the tool calls that reference n
CallNames(n) ==
    {out.input[k].name :
        k \in {j \in 1..Len(ItemSources) :
                 /\ ItemSources[j].kind = "call"
                 /\ Str2(ChatMessages[ItemSources[j].msg].tool_calls.a[ItemSources[j].call],
                         "function", "name") = n}}

ChoiceReferences(n) ==
    LET tc == Field(req.rawJSON, "tool_choice")
    IN  tc.t = "object" /\ Str(tc.o, "type") = "function" /\ Str2(tc.o, "function", "name") = n

\* the output name of a function-type tool_choice that references n
ChoiceNames(n) == IF ChoiceReferences(n) THEN {Str(out.tool_choice, "name")} ELSE {}

(* C6: name consistency.  Within one Chat-Completions conversion a function *)
(* name declared in the tools array has one and the same output name in its *)
(* tools[] definition, in every tool call that references it and in a       *)
(* function-type tool_choice that references it.                            *)
NameConsistency ==
    ChatDone =>
        /\ Len(out.input) = Len(ItemSources)
        /\ DeclaredNames # {} => Len(out.tools) = Len(KeptTools)
        /\ \A n \in DeclaredNames :
               Cardinality(DefinitionNames(n) \cup CallNames(n) \cup ChoiceNames(n)) = 1

-----------------------------------------------------------------------------
\* the item of the output that the source src describes
ItemMatches(item, src) ==
    LET m == ChatMessages[src.msg]
    IN  IF src.kind = "output"
        THEN /\ item.type = "function_call_output"
             /\ item.output = ValueString(Field(m, "content"))
             /\ item.call_id = shortenCallID(Str(m, "tool_call_id"))
        ELSE IF src.kind = "message"
        THEN /\ item.type = "message"
             /\ item.role = (IF Str(m, "role") = "system" THEN "developer" ELSE Str(m, "role"))
             /\ item.content = convertContent(Str(m, "role"), Field(m, "content"))
        ELSE /\ item.type = "function_call"
             /\ item.arguments = Str2(m.tool_calls.a[src.call], "function", "arguments")
             /\ item.call_id = shortenCallID(Str(m.tool_calls.a[src.call], "id"))

(* C7: message transform order.  The output input[] is the in-order         *)
(* concatenation, per message, of one function_call_output item for a tool  *)
(* message, otherwise one message item (system written as developer, any    *)
(* other role kept) followed immediately, for an assistant, by one          *)
(* function_call item per function-type tool call in call order.            *)
MessageTransformOrder ==
    ChatDone =>
        /\ Len(out.input) = Len(ItemSources)
        /\ \A k \in 1..Len(ItemSources) : ItemMatches(out.input[k], ItemSources[k])

\* a system message, then an assistant message with two function calls around
\* a non-function call, then the tool message answering the first call
MessageTransformOrderWitness ==
    /\ ChatDone
    /\ ChatMessages = <<SystemMsg, AssistantCallsMsg, ToolMsgA>>
    /\ Len(out.input) = 5
    /\ out.input[1].role = "developer"
    /\ out.input[2].role = "assistant"
    /\ out.input[3].arguments = "{1}"
    /\ out.input[4].arguments = "{2}"
    /\ out.input[5].output = "42"

-----------------------------------------------------------------------------
\* item with its role and call_id fields left out
WithoutRoleAndCallId(item) == [x \in (DOMAIN item) \ {"role", "call_id"} |-> item[x]]

(* C8: role rewrite.  For an input array, every item whose role is "system" *)
(* has role "developer" in the output; every other item, with another role  *)
(* or none, keeps its role; every item keeps its position and its other     *)
(* fields, and the number of items is unchanged.                            *)
RoleRewrite ==
    (ResponsesDone /\ IsArray(GetKey(rreq.rawJSON, "input"))) =>
        /\ Len(ResponsesOutput) = Len(ResponsesInput)
        /\ \A k \in 1..Len(ResponsesInput) :
              /\ Str(ResponsesInput[k], "role") = "system" => ResponsesOutput[k].role = "developer"
              /\ Str(ResponsesInput[k], "role") # "system" =>
                    /\ Has(ResponsesOutput[k], "role") = Has(ResponsesInput[k], "role")
                    /\ Str(ResponsesOutput[k], "role") = Str(ResponsesInput[k], "role")
              /\ DOMAIN ResponsesOutput[k] = DOMAIN ResponsesInput[k]
              /\ WithoutRoleAndCallId(ResponsesOutput[k]) = WithoutRoleAndCallId(ResponsesInput[k])

\* two system items around an item without a role: both rewritten, the middle
\* one untouched
RoleRewriteWitness ==
    /\ ResponsesDone
    /\ Len(ResponsesInput) = 3
    /\ Str(ResponsesInput[1], "role") = "system" /\ ResponsesOutput[1].role = "developer"
    /\ ~Has(ResponsesInput[2], "role") /\ ~Has(ResponsesOutput[2], "role")
    /\ Str(ResponsesInput[3], "role") = "system" /\ ResponsesOutput[3].role = "developer"

(* C9: idempotence of normalization.  The normalizer applied to its own     *)
(* output yields that same output, for a request whose input is a bare      *)
(* string, an array or absent.                                              *)
NormalizeIdempotent ==
    (op = "responses" /\ pc = "again") => rout2 = rout

\* the first call shortened a call_id and rewrote a role, the second call ran
NormalizeIdempotentWitness ==
    /\ op = "responses" /\ pc = "again"
    /\ rout # rreq.rawJSON
    /\ \E k \in 1..Len(ResponsesInput) :
          /\ Str(ResponsesInput[k], "role") = "system"
          /\ Str(ResponsesInput[k], "call_id") = LongIdB
          /\ GetKey(rout2, "input").a[k].role = "developer"
          /\ Len(GetKey(rout2, "input").a[k].call_id) = limit

(* C10: forced fields.  Whatever the request carried, the output has        *)
(* stream=true, store=false, parallel_tool_calls=true,                      *)
(* include=["reasoning.encrypted_content"] and none of max_output_tokens,   *)
(* max_completion_tokens, temperature, top_p, service_tier, user.           *)
ForcedFields ==
    ResponsesDone =>
        /\ GetKey(rout, "stream") = JBool(TRUE)
        /\ GetKey(rout, "store") = JBool(FALSE)
        /\ GetKey(rout, "parallel_tool_calls") = JBool(TRUE)
        /\ GetKey(rout, "include") = JArray(<<"reasoning.encrypted_content">>)
        /\ \A i \in 1..Len(rout) :
              rout[i].k \notin {"max_output_tokens", "max_completion_tokens", "temperature",
                                "top_p", "service_tier", "user"}

\* a request with stream=false, a user field and no input field
ForcedFieldsWitness ==
    /\ ResponsesDone
    /\ GetKey(rreq.rawJSON, "input") = Null
    /\ GetKey(rreq.rawJSON, "stream") = JBool(FALSE)
    /\ GetKey(rreq.rawJSON, "user") # Null
    /\ GetKey(rout, "stream") = JBool(TRUE)
    /\ GetKey(rout, "user") = Null

ChatScaffoldingWrongTypes ==
    /\ ChatDone
    /\ Field(req.rawJSON, "messages") = JString("hello")
    /\ out.input = <<>>
    /\ out.reasoning.effort = "medium"

\* the parts of a message's content that the claim lets through, in input
\* order: the string content, every text part, and for a user message every
\* image_url part
PassingParts(m) ==
    LET c == Field(m, "content")
    IN  IF c.t = "string"
        THEN IF c.s = "" THEN <<>> ELSE <<[type |-> "text", text |-> c.s]>>
        ELSE IF c.t = "array"
        THEN SelectSeq(c.a, LAMBDA it : \/ Str(it, "type") = "text"
                                       \/ (Str(it, "type") = "image_url" /\ Str(m, "role") = "user"))
        ELSE <<>>

\* the message items of the output, each with the message it came from
MessageItems ==
    {[item |-> out.input[k], m |-> ChatMessages[ItemSources[k].msg]] :
        k \in {x \in 1..Len(ItemSources) : ItemSources[x].kind = "message"}}

(* C12: content-part directionality.  In every message item of the output,  *)
(* each text part (from string content or a type "text" array part) has     *)
(* type "output_text" exactly when the message role is "assistant" and      *)
(* "input_text" for any other role; an input_image part is only in a        *)
(* message whose role is "user"; a type "file" part gives no output part;   *)
(* the parts keep their input order.                                        *)
ContentDirectionality ==
    ChatDone =>
        \A mi \in MessageItems :
            LET parts == mi.item.content
                src == PassingParts(mi.m)
                role == Str(mi.m, "role")
            IN  /\ Len(parts) = Len(src)
                /\ \A j \in 1..Len(parts) :
                      /\ parts[j].type \in {"input_text", "output_text", "input_image"}
                      /\ parts[j].type = "output_text" => role = "assistant"
                      /\ parts[j].type = "input_text" => role # "assistant"
                      /\ parts[j].type = "input_image" => role = "user"
                      /\ (parts[j].type = "input_image") = (Str(src[j], "type") = "image_url")
                      /\ parts[j].type # "input_image" => parts[j].text = Str(src[j], "text")

\* a user message with text, image, file and text parts next to an assistant
\* message with a text part and an image part
ContentDirectionalityWitness ==
    /\ ChatDone
    /\ \E a, b \in MessageItems :
          /\ a.m = UserPartsMsg
          /\ a.item.content = <<[type |-> "input_text", text |-> "Hi"],
                                [type |-> "input_image", image_url |-> "http://img"],
                                [type |-> "input_text", text |-> "there"]>>
          /\ b.m = AssistantPartsMsg
          /\ b.item.content = <<[type |-> "output_text", text |-> "Sure"]>>

\* mcp__<namespace>__<suffix>: the prefix, then a separator "__" after it
McpForm(n) == HasPrefix(n, "mcp__") /\ LastIndex(n, "__") >= Len("mcp__")

\* the segment after the last occurrence of "__"
LastSegment(n) == Drop(n, LastIndex(n, "__") + Len("__"))

\* short is what the rule of the claim gives for the long name n
ShortenedAsRuled(n, short) ==
    /\ McpForm(n) =>
          LET kept == "mcp__" \o LastSegment(n)
          IN  short = (IF Len(kept) > 64 THEN Take(kept, 64) ELSE kept)
    /\ ~HasPrefix(n, "mcp__") => short = Take(n, 64)

(* C13: mcp-prefix preservation.  A name longer than 64 characters of the   *)
(* form mcp__<namespace>__<suffix> shortens to "mcp__" followed by the      *)
(* segment after the last "__", cut to its first 64 characters only if      *)
(* that is still longer than 64; a name longer than 64 that does not start  *)
(* with "mcp__" shortens to its first 64 characters.  This holds for        *)
(* shortenNameIfNeeded, and for the alias buildShortNameMap gives the first *)
(* name of a list when the list has it once (no collision to resolve).      *)
McpPrefixPreservation ==
    /\ (Shortened /\ Len(name) > 64) => ShortenedAsRuled(name, alias)
    /\ (Built /\ names # <<>>) =>
          LET n == names[1]
          IN  (Len(n) > 64 /\ \A k \in 2..Len(names) : names[k] # n)
                  => ShortenedAsRuled(n, nameMap.m[n])

\* shortenNameIfNeeded on a name with one namespace segment and a short last
\* segment
McpPrefixPreservationWitness ==
    /\ Shortened
    /\ name = "mcp__" \o Rep("n", 58) \o "__read"
    /\ alias = "mcp__read"

\* both functions on the name with two namespace segments and a long last
\* segment: the last segment is kept and then cut
McpPrefixCutWitness ==
    \/ Shortened /\ name = McpDeep /\ alias = "mcp__" \o Rep("s", 59)
    \/ Built /\ names = <<McpDeep, LongB>> /\ nameMap.m[McpDeep] = "mcp__" \o Rep("s", 59)

PrePassDone == op = "prepass" /\ pc = "done"

(* C14: collision resolution terminates.  For every list of names the       *)
(* suffix search of makeUnique (i = 1, 2, ...) finds an unused alias after  *)
(* finitely many steps for every name: the search never tries more          *)
(* suffixes than there are aliases in use plus one, and the pre-pass        *)
(* finishes with an alias assigned to every name of the list.               *)
CollisionResolutionTerminates ==
    /\ [](pc = "search" => loop.i <= Cardinality(nameMap.used) + 1)
    /\ <>(PrePassDone /\ DOMAIN nameMap.m = Range(names))

\* the pre-pass has finished for three names, the third of which was given
\* its alias on the second round of the search
CollisionResolutionWitness ==
    /\ PrePassDone
    /\ names = <<LongB, A62_1, LongC>>
    /\ nameMap.m[LongC] = Rep("a", 62) \o "_2"

\* the search has reached a two-digit suffix
CollisionResolutionLongSearch ==
    /\ op = "prepass" /\ pc = "search"
    /\ loop.i = 10
    /\ suffixed(loop.base, loop.i) \notin nameMap.used

\* run step by step, the pre-pass ends with the map the function returns
PrePassAgrees == PrePassDone => nameMap = buildShortNameMap(names)

====
